---- MODULE Spec2Model ----
(***************************************************************************)
(* Model of the in-memory mock data layer of sn-mockup (src/api/mockApi.ts) *)
(* and of the field value codec (src/utils/fieldValue.ts).                  *)
(*                                                                          *)
(* JavaScript strings are sequences of UTF-16 code units.  A field of a     *)
(* record holds undefined, a bare string, a bare number or an object        *)
(* {value, display_value}.                                                  *)
(***************************************************************************)
EXTENDS Integers, Sequences, FiniteSets, TLC

VARIABLES
    tables,  \* mockApi.ts:10  Map<string, TableDefinition>
    data,    \* mockApi.ts:11  Map<string, SNRecord[]>
    fetches, \* mockApi.ts:19  the persistence requests in flight
    disk,    \* vite-plugins/mock-api.ts:54-57  the data arrays of the table files
    resp,    \* the call that settled last: its arguments and its result
    calls,   \* mockApi.ts:55-57  the calls made without awaiting them, each
             \* awaiting its delay or past it
    warnings, \* mockApi.ts:25-30  how often console.warn told of a table not persisted
    conditions,  \* FilterBuilder.tsx:12  the filter conditions of the list view
    isNavOpen,   \* DataContext.tsx:72  useState(false)
    isNavPinned, \* DataContext.tsx:73  useState(stored === 'true')
    stored,      \* DataContext.tsx:74  localStorage['sn-nav-pinned']
    renderedPinned, \* DataContext.tsx:90-94  the isNavPinned of the last render,
                    \* which setNavOpen and the effects close over
    effects      \* DataContext.tsx:79-88  the effects a commit left to run

\* the state of the user interface components
uiVars == <<conditions, isNavOpen, isNavPinned, stored, renderedPinned, effects>>

vars == <<tables, data, fetches, disk, resp, calls, warnings, uiVars>>

----------------------------------------------------------------------------
(* Bounds of the model.                                                     *)

MaxRecords == 2     \* longest seed table
MaxFilters == 2     \* longest filter chain of a query
MaxPage == 3        \* largest page requested
MaxPageSize == 2    \* largest page size requested

----------------------------------------------------------------------------
(* Strings.                                                                 *)

Min(a, b) == IF a < b THEN a ELSE b
Max(a, b) == IF a < b THEN b ELSE a

sEmpty == << >>
sAlice == <<65, 108, 105, 99, 101>>            \* "Alice"
sAliceLc == <<97, 108, 105, 99, 101>>          \* "alice"
sBob == <<66, 111, 98>>                        \* "Bob"
sB == <<98>>                                   \* "b"
sLi == <<76, 73>>                              \* "LI"
s10 == <<49, 48>>                              \* "10"
s9 == <<57>>                                   \* "9"
sTrue == <<116, 114, 117, 101>>                \* "true"
\* "[object Object]", what String() makes of a plain object
sObjectObject ==
    <<91, 111, 98, 106, 101, 99, 116, 32, 79, 98, 106, 101, 99, 116, 93>>

IsUpper(c) == c \in 65..90
IsLower(c) == c \in 97..122
IsDigit(c) == c \in 48..57

\* String.prototype.toLowerCase on the code units the model uses
toLowerCase(s) == [i \in 1..Len(s) |-> IF IsUpper(s[i]) THEN s[i] + 32 ELSE s[i]]

\* the index of the first position where a and b differ, Min(len)+1 if none
FirstDiff(a, b) ==
    LET m == Min(Len(a), Len(b))
        D == {i \in 1..m : a[i] # b[i]}
    IN  IF D = {} THEN m + 1 ELSE CHOOSE i \in D : \A j \in D : i <= j

\* the relational operator < of two strings: code unit order
StrLess(a, b) ==
    LET i == FirstDiff(a, b)
    IN  IF i > Len(a) THEN i <= Len(b)
        ELSE IF i > Len(b) THEN FALSE
        ELSE a[i] < b[i]

\* String.prototype.includes / startsWith / endsWith
includes(s, t) ==
    \E k \in 0..(Len(s) - Len(t)) : SubSeq(s, k + 1, k + Len(t)) = t
startsWith(s, t) ==
    Len(t) <= Len(s) /\ SubSeq(s, 1, Len(t)) = t
endsWith(s, t) ==
    Len(t) <= Len(s) /\ SubSeq(s, Len(s) - Len(t) + 1, Len(s)) = t

\* String.prototype.localeCompare (root collation) on letters, digits and
\* punctuation: first by letters without case (punctuation before digits
\* before letters), then lower case before upper case.  Result in {-1, 0, 1}.
PrimaryWeight(c) ==
    IF IsUpper(c) THEN c + 32
    ELSE IF IsLower(c) THEN c
    ELSE IF IsDigit(c) THEN c
    ELSE 0
TertiaryWeight(c) == IF IsUpper(c) THEN 1 ELSE 0
CmpWeights(wa, wb) ==
    IF wa = wb THEN 0 ELSE IF StrLess(wa, wb) THEN -1 ELSE 1
localeCompare(a, b) ==
    LET p == CmpWeights([i \in 1..Len(a) |-> PrimaryWeight(a[i])],
                        [i \in 1..Len(b) |-> PrimaryWeight(b[i])])
    IN  IF p # 0 THEN p
        ELSE CmpWeights([i \in 1..Len(a) |-> TertiaryWeight(a[i])],
                        [i \in 1..Len(b) |-> TertiaryWeight(b[i])])

----------------------------------------------------------------------------
(* Field values (src/types/index.ts, src/utils/fieldValue.ts).              *)

\* A value is a record: kind says what typeof and null tell of it, prim is
\* the string form of a scalar, value and display_value are the string forms
\* of the members of an object, valueKind and displayKind say what each
\* member is ("absent" when the object has no such member).
Scalar(kind, s) ==
    [kind |-> kind, prim |-> s, value |-> sEmpty, display_value |-> sEmpty,
     valueKind |-> "absent", displayKind |-> "absent"]
Undefined == Scalar("undefined", sEmpty)
Str(s) == Scalar("string", s)
Num(s) == Scalar("number", s)
\* an object with the members value and display_value as given
Object(valueKind, v, displayKind, d) ==
    [kind |-> "object", prim |-> sEmpty, value |-> v, display_value |-> d,
     valueKind |-> valueKind, displayKind |-> displayKind]
\* createFieldValue(value, displayValue)
createFieldValue(v, d) == Object("string", v, "string", d)

\* String(x ?? ''), the conversion mockApi.ts applies to a field it reads
StringOrEmpty(x) ==
    CASE x.kind \in {"undefined", "null"} -> sEmpty
      [] x.kind = "object" -> sObjectObject
      [] OTHER -> x.prim

\* String(member ?? '') of a member of an object
memberString(kind, s) == IF kind \in {"undefined", "null"} THEN sEmpty ELSE s

\* getDisplayValue that reads the raw value
getDisplayValueOfValue(field) ==
    CASE field.kind \in {"undefined", "null"} -> sEmpty
      [] field.kind = "object" /\ field.valueKind # "absent" ->
            memberString(field.valueKind, field.value)
      [] field.kind = "object" /\ field.valueKind = "absent" -> sObjectObject
      [] OTHER -> field.prim

\* getDisplayValue (fieldValue.ts:7-15)
getDisplayValue(field) ==
    CASE field.kind \in {"undefined", "null"} -> sEmpty
      [] field.kind = "object" /\ field.displayKind # "absent" ->
            memberString(field.displayKind, field.display_value)
      [] field.kind = "object" /\ field.displayKind = "absent" -> sObjectObject
      [] OTHER -> field.prim

\* getValue (fieldValue.ts:21-29)
getValue(field) ==
    CASE field.kind \in {"undefined", "null"} -> sEmpty
      [] field.kind = "object" /\ field.valueKind # "absent" ->
            memberString(field.valueKind, field.value)
      [] field.kind = "object" /\ field.valueKind = "absent" -> sObjectObject
      [] OTHER -> field.prim

\* record[field]: undefined when the record has no such property
Prop(record, field) ==
    IF field \in DOMAIN record THEN record[field] ELSE Undefined

----------------------------------------------------------------------------
(* Optional arguments: << >> is undefined, <<n>> is the number n.           *)

None == << >>
Some(n) == <<n>>
\* x ?? d
OrElse(x, d) == IF x = None THEN d ELSE x[1]

----------------------------------------------------------------------------
(* The Query Engine (mockApi.ts:67-178).                                    *)

DefaultPageSize == 20

NoConjunction == "undefined"
Operators ==
    {"is", "is_not", "contains", "starts_with", "ends_with", "greater_than", "less_than"}
FilterCondition(f, o, v, c) ==
    [field |-> f, operator |-> o, value |-> v, conjunction |-> c]

\* what a filter, a sort or a search reads of a field: String(record[field] ?? '')
fieldString(record, field) == StringOrEmpty(Prop(record, field))

\* the switch of matchesFilters (mockApi.ts:75-102): does one condition match
conditionMatches(record, filter) ==
    LET value == fieldString(record, filter.field)
        filterValue == toLowerCase(filter.value)
        recordValue == toLowerCase(value)
    IN  CASE filter.operator = "is" -> recordValue = filterValue
          [] filter.operator = "is_not" -> recordValue # filterValue
          [] filter.operator = "contains" -> includes(recordValue, filterValue)
          [] filter.operator = "starts_with" -> startsWith(recordValue, filterValue)
          [] filter.operator = "ends_with" -> endsWith(recordValue, filterValue)
          [] filter.operator = "greater_than" -> StrLess(filterValue, recordValue)
          [] filter.operator = "less_than" -> StrLess(recordValue, filterValue)
          [] OTHER -> FALSE

\* how the loop combines a match with the result so far (mockApi.ts:104-108)
combine(currentConjunction, result, matches) ==
    IF currentConjunction = "AND" THEN result /\ matches ELSE result \/ matches

\* the conjunction the loop carries to the next condition (mockApi.ts:110)
nextConjunction(filter) ==
    IF filter.conjunction = NoConjunction THEN "AND" ELSE filter.conjunction

\* a loop that combines condition i under the conjunction condition i carries
RECURSIVE filterLoopOwn(_, _, _, _, _)
filterLoopOwn(record, filters, i, result, currentConjunction) ==
    IF i > Len(filters) THEN result
    ELSE filterLoopOwn(record, filters, i + 1,
                       combine(IF i = 1 THEN currentConjunction
                               ELSE nextConjunction(filters[i]),
                               result, conditionMatches(record, filters[i])),
                       currentConjunction)

\* the loop of matchesFilters from condition i on (mockApi.ts:74-111)
RECURSIVE filterLoop(_, _, _, _, _)
filterLoop(record, filters, i, result, currentConjunction) ==
    IF i > Len(filters) THEN result
    ELSE filterLoop(record, filters, i + 1,
                    combine(currentConjunction, result, conditionMatches(record, filters[i])),
                    nextConjunction(filters[i]))

\* matchesFilters (mockApi.ts:68-114)
matchesFilters(record, filters) ==
    IF Len(filters) = 0 THEN TRUE
    ELSE filterLoop(record, filters, 1, TRUE, "AND")

\* Array.prototype.filter: the elements of s whose test result keep[i] is true
RECURSIVE SelectSeqBy(_, _)
SelectSeqBy(s, keep) ==
    IF s = << >> THEN << >>
    ELSE (IF keep[1] THEN <<Head(s)>> ELSE << >>) \o SelectSeqBy(Tail(s), Tail(keep))

\* the names of the string and text fields of a table (mockApi.ts:134-137)
stringFields(tableDef) ==
    {tableDef.fields[i].name : i \in {j \in 1..Len(tableDef.fields) :
        tableDef.fields[j].type \in {"string", "text"}}}

\* the search predicate of getRecords (mockApi.ts:139-146)
searchMatches(record, fields, search) ==
    \E field \in fields :
        LET value == Prop(record, field)
        IN  value.kind = "string" /\ includes(toLowerCase(value.prim), toLowerCase(search))

\* the comparator of the sort (mockApi.ts:159-163)
compareRecords(a, b, sortField, direction) ==
    localeCompare(fieldString(a, sortField), fieldString(b, sortField)) * direction

\* Array.prototype.sort is stable: insertion after every element not greater
RECURSIVE sortRecords(_, _, _)
sortRecords(records, sortField, direction) ==
    IF Len(records) <= 1 THEN records
    ELSE LET n == Len(records)
             x == records[n]
             sorted == sortRecords(SubSeq(records, 1, n - 1), sortField, direction)
             k == Cardinality({i \in 1..Len(sorted) :
                      compareRecords(sorted[i], x, sortField, direction) <= 0})
         IN  SubSeq(sorted, 1, k) \o <<x>> \o SubSeq(sorted, k + 1, Len(sorted))

\* Array.prototype.slice(start, end)
slice(s, start, end) ==
    LET len == Len(s)
        from == IF start < 0 THEN Max(len + start, 0) ELSE Min(start, len)
        to == IF end < 0 THEN Max(len + end, 0) ELSE Min(end, len)
    IN  SubSeq(s, from + 1, to)

\* a page start that counts pages from 0
startIndexFromZero(page, pageSize) == page * pageSize

\* where the page starts (mockApi.ts:169)
startIndex(page, pageSize) == (page - 1) * pageSize

\* a default page size taken from the table's list configuration
defaultPageSizeOfTable(tableName) ==
    IF tableName \in DOMAIN tables
    THEN OrElse(tables[tableName].list.pageSize, DefaultPageSize)
    ELSE DefaultPageSize

\* the page size getRecords uses when the query names none (mockApi.ts:168)
defaultPageSize(tableName) == DefaultPageSize

TableNotFound == "table not found"

\* getRecords (mockApi.ts:117-178) on the store as it stands
getRecords(tableName, query) ==
    IF tableName \notin DOMAIN data
    THEN [error |-> TableNotFound, data |-> << >>, total |-> 0, page |-> 0, pageSize |-> 0]
    ELSE
    LET tableData == data[tableName]
        searched ==
            IF query.search # sEmpty
            THEN LET fields == IF tableName \in DOMAIN tables
                               THEN stringFields(tables[tableName]) ELSE {}
                 IN  SelectSeqBy(tableData,
                         [i \in 1..Len(tableData) |->
                             searchMatches(tableData[i], fields, query.search)])
            ELSE tableData
        filtered ==
            IF Len(query.filters) > 0
            THEN SelectSeqBy(searched,
                     [i \in 1..Len(searched) |->
                         matchesFilters(searched[i], query.filters)])
            ELSE searched
        records ==
            IF query.sortField # ""
            THEN sortRecords(filtered, query.sortField,
                             IF query.sortDirection = "desc" THEN -1 ELSE 1)
            ELSE filtered
        page == OrElse(query.page, 1)
        pageSize == OrElse(query.pageSize, defaultPageSize(tableName))
        start == startIndex(page, pageSize)
    IN  [error |-> "", data |-> slice(records, start, start + pageSize),
         total |-> Len(records), page |-> page, pageSize |-> pageSize]

----------------------------------------------------------------------------
(* Tables and records the model is run on.                                  *)

\* "id_n", the identifiers of seed records
SysId(n) == Str(<<105, 100, 95, 48 + n>>)

incident == "incident"
Unregistered == "no_such_table"

\* a table definition: name (string), active (boolean), with or without a
\* configured list page size (types/index.ts:39-46, 127-138)
ConfiguredPageSize == 1
TableDefinition(pageSize) ==
    [name |-> incident,
     fields |-> <<[name |-> "name", type |-> "string"],
                  [name |-> "active", type |-> "boolean"]>>,
     list |-> [pageSize |-> pageSize]]
TableDefinitions == {TableDefinition(None), TableDefinition(Some(ConfiguredPageSize))}

Record(id, name, active) ==
    [sys_id |-> id, name |-> name, active |-> active,
     sys_created_on |-> Undefined, sys_updated_on |-> Undefined]

\* the field contents seed records are made of: bare strings, a bare number,
\* {value, display_value} pairs whose raw and display values order differently,
\* a boolean field holding the text "true", a missing field
SeedContents ==
    { <<Str(sAlice), Str(sTrue)>>,
      <<Str(sBob), Undefined>>,
      <<createFieldValue(s9, sAlice), createFieldValue(sTrue, sTrue)>>,
      <<createFieldValue(s10, sBob), Undefined>>,
      <<Num(s10), Undefined>> }

\* the seed tables: every sequence of at most MaxRecords seed records, the
\* i-th with sys_id "id_i"
SeedTables ==
    UNION {{[i \in 1..n |-> Record(SysId(i - 1), c[i][1], c[i][2])] :
                c \in [1..n -> SeedContents]} : n \in 0..MaxRecords}

----------------------------------------------------------------------------
(* Queries the model asks.                                                  *)

Query(page, pageSize, sortField, sortDirection, filters, search) ==
    [page |-> page, pageSize |-> pageSize, sortField |-> sortField,
     sortDirection |-> sortDirection, filters |-> filters, search |-> search]
EmptyQuery == Query(None, None, "", "undefined", << >>, sEmpty)

\* single conditions: every operator on the name, and the boolean field
SingleConditions ==
    {FilterCondition("name", o, v, NoConjunction) :
        o \in Operators, v \in {sAliceLc, sBob, s9}}
    \cup {FilterCondition("active", "is", sTrue, NoConjunction)}

\* conditions of longer chains, with every conjunction
ChainConditions ==
    {FilterCondition("name", "is", sAliceLc, c) : c \in {NoConjunction, "AND", "OR"}}
    \cup {FilterCondition("name", "is", sBob, c) : c \in {NoConjunction, "AND", "OR"}}
    \cup {FilterCondition("name", "less_than", sB, c) : c \in {NoConjunction, "AND", "OR"}}

FilterChains ==
    {<<c>> : c \in SingleConditions}
    \cup UNION {[1..n -> ChainConditions] : n \in 2..MaxFilters}

FilterQueries ==
    {Query(None, None, "", "undefined", f, sEmpty) : f \in FilterChains}

Sorts == {<<"", "undefined">>} \cup {<<"name", d>> : d \in {"undefined", "asc", "desc"}}
Pages == {None} \cup {Some(n) : n \in 1..MaxPage}
PageSizes == {None} \cup {Some(n) : n \in 1..MaxPageSize}

ListQueries ==
    {Query(p, ps, s[1], s[2], f, q) :
        p \in Pages, ps \in PageSizes, s \in Sorts,
        f \in {<< >>, <<FilterCondition("name", "less_than", sB, NoConjunction)>>},
        q \in {sEmpty, sLi, sTrue}}

Requests ==
    ({incident} \X (FilterQueries \cup ListQueries))
    \cup ({Unregistered} \X {EmptyQuery})

----------------------------------------------------------------------------
(* The query specification: a seeded store, and getRecords applied to it.   *)

NoResponse == [op |-> "none"]

\* no call has been started, the user interface is not in use
NoCalls == calls = {}
NoWarnings == warnings = 0
UiUnused ==
    /\ conditions = << >>
    /\ isNavOpen = FALSE
    /\ isNavPinned = FALSE
    /\ stored = "null"
    /\ renderedPinned = FALSE
    /\ effects = FALSE

\* initializeApi (mockApi.ts:35-40) with one table definition
InitQuery ==
    /\ \E def \in TableDefinitions : tables = [t \in {incident} |-> def]
    /\ \E seed \in SeedTables : data = [t \in {incident} |-> seed]
    /\ fetches = {}
    /\ disk = data
    /\ resp = NoResponse
    /\ NoCalls
    /\ NoWarnings
    /\ UiUnused

\* the caller awaits every call: no call is made while one is outstanding
Idle == resp = NoResponse /\ fetches = {}

\* a call of getRecords settles
GetRecords ==
    \E r \in Requests :
        /\ Idle
        /\ resp' = [op |-> "getRecords", tableName |-> r[1], query |-> r[2],
                    result |-> getRecords(r[1], r[2])]
        /\ UNCHANGED <<tables, data, fetches, disk, calls, warnings, uiVars>>

\* the caller takes the result of the settled call
Return ==
    /\ resp # NoResponse
    /\ resp' = NoResponse
    /\ UNCHANGED <<tables, data, fetches, disk, calls, warnings, uiVars>>

NextQuery == GetRecords \/ Return

SpecQuery == InitQuery /\ [][NextQuery]_vars

----------------------------------------------------------------------------
(* The CRUD operations (mockApi.ts:13-32, 59-65, 195-268).                  *)

\* bounds of the store specification
MaxIds == 2         \* identifiers the generator draws from
MaxSeeds == 2       \* longest seed table of the store specification
MaxWarnings == 1    \* persistence requests that fail in a session

RecordNotFound == "record not found"

\* the properties a record of the model can have
RecordFields == {"sys_id", "name", "active", "sys_created_on", "sys_updated_on"}

\* the values generateSysId (mockApi.ts:60-65) can return: non-empty strings
\* (two base-36 fractions; empty only should Math.random() give 0 twice)
SysIds == {SysId(n) : n \in 0..(MaxIds - 1)}

\* new Date().toISOString(): one instant stands for every time of a session;
\* seed records carry no time stamps, a stamp set by the store shows on them
sNow == <<50, 48, 50, 54>>
Times == {Str(sNow)}

\* the sys_id values in use in a table
idsOf(tableData) == {tableData[i].sys_id : i \in 1..Len(tableData)}

\* tableData.findIndex((r) => r.sys_id === sysId), from 0, -1 when absent
findIndex(tableData, sysId) ==
    LET found == {i \in 1..Len(tableData) : tableData[i].sys_id = sysId}
    IN  IF found = {} THEN -1
        ELSE (CHOOSE i \in found : \A j \in found : i <= j) - 1

\* a new record in which the caller's fields come last and win
newRecordCallerLast(recordData, id, created, updated) ==
    [f \in RecordFields |->
        IF f \in DOMAIN recordData THEN recordData[f]
        ELSE IF f = "sys_id" THEN id
        ELSE IF f = "sys_created_on" THEN created
        ELSE IF f = "sys_updated_on" THEN updated
        ELSE Undefined]

\* the record createRecord builds (mockApi.ts:207-212)
newRecord(recordData, id, created, updated) ==
    [f \in RecordFields |->
        IF f = "sys_id" THEN id
        ELSE IF f = "sys_created_on" THEN created
        ELSE IF f = "sys_updated_on" THEN updated
        ELSE IF f \in DOMAIN recordData THEN recordData[f]
        ELSE Undefined]

\* a replacement: the fields the patch does not name are lost
updatedRecordReplaces(existing, updates, sysId, updated) ==
    [f \in RecordFields |->
        IF f = "sys_id" THEN sysId
        ELSE IF f = "sys_updated_on" THEN updated
        ELSE IF f \in DOMAIN updates THEN updates[f]
        ELSE IF f = "sys_created_on" THEN existing[f]
        ELSE Undefined]

\* a merge that does not pin sys_id
updatedRecordUnpinned(existing, updates, sysId, updated) ==
    [f \in RecordFields |->
        IF f = "sys_updated_on" THEN updated
        ELSE IF f \in DOMAIN updates THEN updates[f]
        ELSE existing[f]]

\* the record updateRecord builds (mockApi.ts:237-242)
updatedRecord(existing, updates, sysId, updated) ==
    [f \in RecordFields |->
        IF f = "sys_id" THEN sysId
        ELSE IF f = "sys_updated_on" THEN updated
        ELSE IF f \in DOMAIN updates THEN updates[f]
        ELSE existing[f]]

\* a removal that is off by one: the record after the found one goes
spliceNext(tableData, index) ==
    SubSeq(tableData, 1, index + 1) \o SubSeq(tableData, index + 3, Len(tableData))

\* tableData.splice(index, 1), index from 0
splice(tableData, index) ==
    SubSeq(tableData, 1, index) \o SubSeq(tableData, index + 2, Len(tableData))

\* a persistence that sends every table of the store
persistAllToServer(store, tableName, call) ==
    {[tableName |-> t, body |-> store[t], call |-> call] : t \in DOMAIN store}

\* the request persistToServer sends for a table of the store `store`
\* (mockApi.ts:14-23): none when the table is not in the store
persistToServer(store, tableName, call) ==
    IF tableName \notin DOMAIN store THEN {}
    ELSE {[tableName |-> tableName, body |-> store[tableName], call |-> call]}

\* a failing call that sends the table all the same
RejectedAfterRequest(call, error) ==
    /\ resp' = [call EXCEPT !.result = [error |-> error, record |-> Undefined]]
    /\ fetches' = fetches \cup persistToServer(data, call.tableName, call)
    /\ UNCHANGED <<tables, data, disk, warnings, uiVars>>

\* a call that failed: nothing is sent, the caller's await rejects
Rejected(call, error) ==
    /\ resp' = [call EXCEPT !.result = [error |-> error, record |-> Undefined]]
    /\ UNCHANGED <<tables, data, fetches, disk, warnings, uiVars>>

\* a call that changed the store to `store`: the request goes out, the call
\* settles when the request does
Applied(call, store) ==
    /\ data' = store
    /\ fetches' = fetches \cup persistToServer(store, call.tableName, call)
    /\ UNCHANGED <<tables, disk, resp, warnings, uiVars>>

Call(op, tableName, sysId, patch, record) ==
    [op |-> op, tableName |-> tableName, sysId |-> sysId, patch |-> patch,
     before |-> data, warned |-> warnings,
     result |-> [error |-> "", record |-> record]]

\* what callers pass
TableNames == {incident, Unregistered}
RecordDatas ==
    { << >>,
      [name |-> Str(sBob)],
      [sys_id |-> SysId(0), name |-> Str(sBob)] }
Updates ==
    { << >>,
      [name |-> Str(sBob)],
      [sys_id |-> SysId(1)],
      [sys_id |-> SysId(0), name |-> Str(sBob)] }

\* a creation that puts the new record first
CreateRecordPrepends ==
    \E tableName \in TableNames, recordData \in RecordDatas :
        /\ Idle
        /\ UNCHANGED calls
        /\ IF tableName \notin DOMAIN data
           THEN Rejected(Call("createRecord", tableName, Undefined, recordData, Undefined),
                         TableNotFound)
           ELSE \E id \in SysIds \ idsOf(data[tableName]), created, updated \in Times :
                   LET record == newRecord(recordData, id, created, updated)
                   IN  Applied(Call("createRecord", tableName, Undefined, recordData, record),
                               [data EXCEPT ![tableName] = <<record>> \o @])

\* createRecord (mockApi.ts:196-217), after its delay
CreateRecord ==
    \E tableName \in TableNames, recordData \in RecordDatas :
        /\ Idle
        /\ UNCHANGED calls
        /\ IF tableName \notin DOMAIN data
           THEN Rejected(Call("createRecord", tableName, Undefined, recordData, Undefined),
                         TableNotFound)
           ELSE \E id \in SysIds \ idsOf(data[tableName]), created, updated \in Times :
                   LET record == newRecord(recordData, id, created, updated)
                   IN  Applied(Call("createRecord", tableName, Undefined, recordData, record),
                               [data EXCEPT ![tableName] = Append(@, record)])

\* an update that removes the record and appends the merged one
UpdateRecordAppends ==
    \E tableName \in TableNames, sysId \in SysIds, updates \in Updates :
        /\ Idle
        /\ UNCHANGED calls
        /\ IF tableName \notin DOMAIN data
           THEN Rejected(Call("updateRecord", tableName, sysId, updates, Undefined),
                         TableNotFound)
           ELSE LET index == findIndex(data[tableName], sysId)
                IN  IF index = -1
                    THEN Rejected(Call("updateRecord", tableName, sysId, updates, Undefined),
                                  RecordNotFound)
                    ELSE \E updated \in Times :
                            LET record == updatedRecord(data[tableName][index + 1],
                                                        updates, sysId, updated)
                            IN  Applied(Call("updateRecord", tableName, sysId, updates, record),
                                        [data EXCEPT ![tableName] =
                                            Append(splice(@, index), record)])

\* updateRecord (mockApi.ts:220-247), after its delay
UpdateRecord ==
    \E tableName \in TableNames, sysId \in SysIds, updates \in Updates :
        /\ Idle
        /\ UNCHANGED calls
        /\ IF tableName \notin DOMAIN data
           THEN Rejected(Call("updateRecord", tableName, sysId, updates, Undefined),
                         TableNotFound)
           ELSE LET index == findIndex(data[tableName], sysId)
                IN  IF index = -1
                    THEN Rejected(Call("updateRecord", tableName, sysId, updates, Undefined),
                                  RecordNotFound)
                    ELSE \E updated \in Times :
                            LET record == updatedRecord(data[tableName][index + 1],
                                                        updates, sysId, updated)
                            IN  Applied(Call("updateRecord", tableName, sysId, updates, record),
                                        [data EXCEPT ![tableName][index + 1] = record])

\* a deletion without the check of the index: splice(-1, 1) removes the
\* last record
DeleteRecordUnchecked ==
    \E tableName \in TableNames, sysId \in SysIds :
        /\ Idle
        /\ UNCHANGED calls
        /\ IF tableName \notin DOMAIN data
           THEN Rejected(Call("deleteRecord", tableName, sysId, << >>, Undefined),
                         TableNotFound)
           ELSE LET index == findIndex(data[tableName], sysId)
                IN  Applied(Call("deleteRecord", tableName, sysId, << >>, Undefined),
                            [data EXCEPT ![tableName] =
                                IF index = -1 THEN SubSeq(@, 1, Len(@) - 1)
                                ELSE splice(@, index)])

\* deleteRecord (mockApi.ts:250-268), after its delay
DeleteRecord ==
    \E tableName \in TableNames, sysId \in SysIds :
        /\ Idle
        /\ UNCHANGED calls
        /\ IF tableName \notin DOMAIN data
           THEN Rejected(Call("deleteRecord", tableName, sysId, << >>, Undefined),
                         TableNotFound)
           ELSE LET index == findIndex(data[tableName], sysId)
                IN  IF index = -1
                    THEN Rejected(Call("deleteRecord", tableName, sysId, << >>, Undefined),
                                  RecordNotFound)
                    ELSE Applied(Call("deleteRecord", tableName, sysId, << >>, Undefined),
                                 [data EXCEPT ![tableName] = splice(@, index)])

\* null, what getRecord returns when no record has the identifier
Null == Scalar("null", sEmpty)

\* getRecord without the missing-table check
getRecordUnchecked(tableName, sysId) ==
    LET tableData == IF tableName \in DOMAIN data THEN data[tableName] ELSE << >>
        index == findIndex(tableData, sysId)
    IN  [error |-> "",
         record |-> IF index = -1 THEN Null ELSE tableData[index + 1]]

\* getRecord (mockApi.ts:181-193) on the store as it stands:
\* tableData.find((r) => r.sys_id === sysId) ?? null
getRecord(tableName, sysId) ==
    IF tableName \notin DOMAIN data
    THEN [error |-> TableNotFound, record |-> Undefined]
    ELSE LET tableData == data[tableName]
             index == findIndex(tableData, sysId)
         IN  [error |-> "",
              record |-> IF index = -1 THEN Null ELSE tableData[index + 1]]

\* record[parentField] === parentSysId (mockApi.ts:295): strict equality
\* with a string holds of a string with the same code units only
strictEquals(field, parentSysId) ==
    field.kind = "string" /\ field.prim = parentSysId

\* getRelatedRecords that throws for a table that is not registered
getRelatedRecordsThrows(tableName, parentField, parentSysId) ==
    IF tableName \notin DOMAIN data
    THEN [error |-> TableNotFound, data |-> << >>, total |-> 0, page |-> 0, pageSize |-> 0]
    ELSE LET tableData == data[tableName]
             records == SelectSeqBy(tableData,
                            [i \in 1..Len(tableData) |->
                                strictEquals(Prop(tableData[i], parentField), parentSysId)])
         IN  [error |-> "", data |-> records, total |-> Len(records),
              page |-> 1, pageSize |-> Len(records)]

\* getRelatedRecords (mockApi.ts:282-304) on the store as it stands
getRelatedRecords(tableName, parentField, parentSysId) ==
    IF tableName \notin DOMAIN data
    THEN [error |-> "", data |-> << >>, total |-> 0, page |-> 1, pageSize |-> 20]
    ELSE LET tableData == data[tableName]
             records == SelectSeqBy(tableData,
                            [i \in 1..Len(tableData) |->
                                strictEquals(Prop(tableData[i], parentField), parentSysId)])
         IN  [error |-> "", data |-> records, total |-> Len(records),
              page |-> 1, pageSize |-> Len(records)]

\* what callers ask of the store
StoreQueries ==
    { EmptyQuery,
      Query(None, None, "name", "desc", << >>, sEmpty),
      Query(None, None, "", "undefined",
            <<FilterCondition("name", "is", sBob, NoConjunction)>>, sEmpty) }
StoreRequests == TableNames \X StoreQueries
ParentFields == {"name"}
ParentSysIds == {sAlice, s9}

\* a getRecords that sorts the table itself instead of a copy
ListRecordsSortsInPlace ==
    \E r \in StoreRequests :
        /\ Idle
        /\ resp' = [op |-> "getRecords", tableName |-> r[1], query |-> r[2],
                    result |-> getRecords(r[1], r[2])]
        /\ data' = IF r[1] \in DOMAIN data /\ r[2].sortField # ""
                   THEN [data EXCEPT ![r[1]] =
                            sortRecords(@, r[2].sortField,
                                        IF r[2].sortDirection = "desc" THEN -1 ELSE 1)]
                   ELSE data
        /\ UNCHANGED <<tables, fetches, disk, calls, warnings, uiVars>>

\* getRecords (mockApi.ts:117-178) on the store, after its delay
ListRecords ==
    \E r \in StoreRequests :
        /\ Idle
        /\ resp' = [op |-> "getRecords", tableName |-> r[1], query |-> r[2],
                    result |-> getRecords(r[1], r[2])]
        /\ UNCHANGED <<tables, data, fetches, disk, calls, warnings, uiVars>>

\* getRecord (mockApi.ts:181-193), after its delay
GetRecord ==
    \E tableName \in TableNames, sysId \in SysIds :
        /\ Idle
        /\ resp' = [op |-> "getRecord", tableName |-> tableName, sysId |-> sysId,
                    result |-> getRecord(tableName, sysId)]
        /\ UNCHANGED <<tables, data, fetches, disk, calls, warnings, uiVars>>

\* getRelatedRecords (mockApi.ts:282-304), after its delay
GetRelatedRecords ==
    \E tableName \in TableNames, parentField \in ParentFields,
       parentSysId \in ParentSysIds :
        /\ Idle
        /\ resp' = [op |-> "getRelatedRecords", tableName |-> tableName,
                    parentField |-> parentField, parentSysId |-> parentSysId,
                    result |-> getRelatedRecords(tableName, parentField, parentSysId)]
        /\ UNCHANGED <<tables, data, fetches, disk, calls, warnings, uiVars>>

\* the dev server stores the posted data array and answers 200
\* (vite-plugins/mock-api.ts:38-61); persistToServer returns, the call resolves
PersistOk ==
    \E f \in fetches :
        /\ f.tableName \in DOMAIN disk
        /\ disk' = [disk EXCEPT ![f.tableName] = f.body]
        /\ fetches' = fetches \ {f}
        /\ resp' = f.call
        /\ UNCHANGED <<tables, data, calls, warnings, uiVars>>

\* a failed request that makes the call fail and undoes its change
PersistFailsThrows ==
    \E f \in fetches :
        /\ f.tableName \in DOMAIN disk
        /\ disk[f.tableName] = f.call.before[f.tableName]
        /\ fetches' = fetches \ {f}
        /\ resp' = [f.call EXCEPT !.result = [error |-> "could not persist",
                                              record |-> Undefined]]
        /\ data' = f.call.before
        /\ UNCHANGED <<tables, disk, calls, warnings, uiVars>>

\* the request fails (no server, 404, 500): persistToServer warns and
\* returns (mockApi.ts:25-31), the call resolves all the same.  The model
\* lets a request fail only when the one before it reached the table file.
PersistFails ==
    \E f \in fetches :
        /\ f.tableName \in DOMAIN disk
        /\ disk[f.tableName] = f.call.before[f.tableName]
        /\ warnings < MaxWarnings
        /\ warnings' = warnings + 1
        /\ fetches' = fetches \ {f}
        /\ resp' = f.call
        /\ UNCHANGED <<tables, data, disk, calls, uiVars>>

\* a second registered table, which the callers of the model leave alone
problem == "problem"
ProblemSeed == <<Record(SysId(0), Str(sAlice), Undefined)>>

\* the seed tables of the store specification
StoreSeeds ==
    UNION {{[i \in 1..n |-> Record(SysId(i - 1), c[i], Undefined)] :
                c \in [1..n -> {Str(sAlice), createFieldValue(s9, sBob)}]} :
           n \in 0..Min(MaxSeeds, MaxIds)}

\* initializeApi (mockApi.ts:35-40); the table files hold the seed data
Init ==
    /\ tables = [t \in {incident, problem} |->
                    [TableDefinition(None) EXCEPT !.name = t]]
    /\ \E seed \in StoreSeeds :
          data = [t \in {incident, problem} |->
                     IF t = incident THEN seed ELSE ProblemSeed]
    /\ fetches = {}
    /\ disk = data
    /\ resp = NoResponse
    /\ NoCalls
    /\ NoWarnings
    /\ UiUnused

Next ==
    \/ CreateRecord
    \/ UpdateRecord
    \/ DeleteRecord
    \/ ListRecords
    \/ GetRecord
    \/ GetRelatedRecords
    \/ PersistOk
    \/ PersistFails
    \/ Return

Spec == Init /\ [][Next]_vars

----------------------------------------------------------------------------
(* What the claims speak of.                                                *)

\* a call of getRecords on the registered table has settled
Listed == resp.op = "getRecords" /\ resp.tableName = incident

\* the query named only filters: every retained record is on the first page
FiltersOnly == Listed /\ resp.query \in FilterQueries

\* record R is in the returned page
Returned(R) == \E i \in 1..Len(resp.result.data) : resp.result.data[i] = R

\* the records of the queried table
Stored == {data[incident][i] : i \in 1..Len(data[incident])}

\* the display value of a field, lower-cased
lowerDisplay(R, field) == toLowerCase(getDisplayValue(Prop(R, field)))

----------------------------------------------------------------------------
(* C1: with a single condition (field, 'is', v), getRecords retains a       *)
(* record iff the lower-cased display value of its field equals the         *)
(* lower-cased v; the display value of a {value, display_value} pair is its *)
(* display_value, of a bare scalar its string form.                         *)
C1_IsComparesDisplayValue ==
    (FiltersOnly /\ Len(resp.query.filters) = 1
        /\ resp.query.filters[1].operator = "is")
    => \A R \in Stored :
          Returned(R) <=>
              lowerDisplay(R, resp.query.filters[1].field)
                  = toLowerCase(resp.query.filters[1].value)

----------------------------------------------------------------------------
(* C2: the filter chain is a fold from result = true and pending            *)
(* conjunction AND, where the conjunction of condition i governs how        *)
(* condition i+1 is combined (missing means AND); so [c0 with OR, c1]       *)
(* retains a record iff it matches c0 or c1.                                *)

\* the conjunction pending when condition i is combined
PendingShifted(filters, i) ==
    IF i = 1 \/ filters[i - 1].conjunction = NoConjunction THEN "AND"
    ELSE filters[i - 1].conjunction

\* the accumulated results acc[0..n] of the fold, given the pending conjunctions
FoldOf(R, filters, Pending(_, _)) ==
    CHOOSE acc \in [0..Len(filters) -> BOOLEAN] :
        /\ acc[0] = TRUE
        /\ \A i \in 1..Len(filters) :
              acc[i] = IF Pending(filters, i) = "AND"
                       THEN acc[i - 1] /\ conditionMatches(R, filters[i])
                       ELSE acc[i - 1] \/ conditionMatches(R, filters[i])

----------------------------------------------------------------------------
(* C3: the conjunction carried by condition i (i >= 1) determines how       *)
(* condition i combines with the result of conditions 0..i-1 and the first  *)
(* condition's conjunction is ignored; so the chain FilterBuilder makes     *)
(* with its OR button, [c0 without conjunction, c1 with OR], retains        *)
(* exactly the records matching c0 or c1.                                   *)

\* the conjunction condition i carries itself
PendingOwn(filters, i) ==
    IF i = 1 \/ filters[i].conjunction = NoConjunction THEN "AND"
    ELSE filters[i].conjunction

C3_ConjunctionGovernsOwn ==
    FiltersOnly =>
        /\ \A R \in Stored :
              Returned(R) <=>
                  FoldOf(R, resp.query.filters, PendingOwn)[Len(resp.query.filters)]
        /\ (Len(resp.query.filters) = 2
              /\ resp.query.filters[1].conjunction = NoConjunction
              /\ resp.query.filters[2].conjunction = "OR")
              => \A R \in Stored :
                    Returned(R) <=> (conditionMatches(R, resp.query.filters[1])
                                     \/ conditionMatches(R, resp.query.filters[2]))

----------------------------------------------------------------------------
(* C4: when sortField is set, getRecords orders the retained records by     *)
(* the display value of that field, never by its raw value: ascending       *)
(* follows the display values, descending is the reverse.                   *)
C4_SortByDisplayValue ==
    (Listed /\ resp.query.sortField # "")
    => LET out == resp.result.data
           direction == IF resp.query.sortDirection = "desc" THEN -1 ELSE 1
           display(i) == getDisplayValue(Prop(out[i], resp.query.sortField))
       IN  \A i, j \in 1..Len(out) :
              i < j => localeCompare(display(i), display(j)) * direction <= 0

----------------------------------------------------------------------------
(* C5: with a search term, getRecords retains a record iff a field of type  *)
(* string or text has a display value containing the term, case ignored;    *)
(* fields of other types never cause a match.                               *)
C5_SearchDisplayValue ==
    (Listed /\ resp.query.search # sEmpty /\ resp.query.filters = << >>
        /\ resp.query.page = None /\ resp.query.pageSize = None)
    => \A R \in Stored :
          Returned(R) <=>
              \E field \in stringFields(tables[incident]) :
                  includes(lowerDisplay(R, field), toLowerCase(resp.query.search))

----------------------------------------------------------------------------
(* C6: total is the number of records left after search and filter,         *)
(* whatever page and pageSize are requested; data is the slice              *)
(* [(page-1)*pageSize, page*pageSize) of the filtered, sorted records; a    *)
(* page beyond the data is empty, with total unchanged.                     *)

\* the positions of the stored records that pass the search and the filters
Kept(query) ==
    {i \in 1..Len(data[incident]) :
        /\ query.search # sEmpty
              => searchMatches(data[incident][i], stringFields(tables[incident]),
                               query.search)
        /\ matchesFilters(data[incident][i], query.filters)}

\* the whole listing of a query: what it returns when no page is asked for
WholeListing(query) ==
    getRecords(incident, [query EXCEPT !.page = None, !.pageSize = None]).data

C6_TotalAndSlice ==
    Listed =>
        LET query == resp.query
            whole == WholeListing(query)
            page == resp.result.page
            pageSize == resp.result.pageSize
            from == (page - 1) * pageSize
            n == Max(0, Min(pageSize, Len(whole) - from))
        IN  /\ resp.result.total = Cardinality(Kept(query))
            /\ resp.result.total = Len(whole)
            /\ resp.result.data = [k \in 1..n |-> whole[from + k]]
            /\ from >= resp.result.total => resp.result.data = << >>

\* a page beyond the data has come back empty, with the total of the data
C6_Witness ==
    /\ Listed
    /\ resp.query.page = Some(3)
    /\ resp.query.pageSize = Some(1)
    /\ resp.result.total = 2
    /\ resp.result.data = << >>

----------------------------------------------------------------------------
(* C7: when a query omits page and pageSize, getRecords uses page 1 and the *)
(* queried table's configured list page size, 20 only when the table        *)
(* configures none; the returned page and pageSize report the values used.  *)
C7_DefaultIsTablePageSize ==
    (Listed /\ resp.query.page = None /\ resp.query.pageSize = None)
    => /\ resp.result.page = 1
       /\ resp.result.pageSize = OrElse(tables[incident].list.pageSize, DefaultPageSize)

(* C7, amended: when a query omits page and pageSize, getRecords uses page  *)
(* 1 and page size 20 whatever list page size the table configures; the     *)
(* returned page and pageSize report the values used.                       *)
C7_DefaultIsTwenty ==
    Listed =>
        /\ resp.result.page = OrElse(resp.query.page, 1)
        /\ resp.result.pageSize = OrElse(resp.query.pageSize, DefaultPageSize)
        /\ Len(resp.result.data)
              = Max(0, Min(resp.result.pageSize,
                           resp.result.total - (resp.result.page - 1) * resp.result.pageSize))

\* a table that configures a page size of 1 has listed its two records on
\* the default page
C7_Witness ==
    /\ Listed
    /\ tables[incident].list.pageSize = Some(ConfiguredPageSize)
    /\ resp.query.page = None /\ resp.query.pageSize = None
    /\ resp.result.pageSize = DefaultPageSize
    /\ Len(resp.result.data) = 2

----------------------------------------------------------------------------
(* C8: greater_than and less_than compare the lower-cased display value of  *)
(* the field with the lower-cased condition value as strings, in lexical    *)
(* order, for every field type.                                             *)
C8_OrderComparesDisplayValue ==
    (FiltersOnly /\ Len(resp.query.filters) = 1
        /\ resp.query.filters[1].operator \in {"greater_than", "less_than"})
    => LET filter == resp.query.filters[1]
       IN  \A R \in Stored :
              Returned(R) <=>
                  IF filter.operator = "greater_than"
                  THEN StrLess(toLowerCase(filter.value), lowerDisplay(R, filter.field))
                  ELSE StrLess(lowerDisplay(R, filter.field), toLowerCase(filter.value))

----------------------------------------------------------------------------
(* What the claims about the store speak of.                                *)

\* a call of the named operation has settled without an error
Settled(op) == resp.op = op /\ resp.result.error = ""

\* the table the settled call worked on, before and after
TableBefore == resp.before[resp.tableName]
TableAfter == data[resp.tableName]

----------------------------------------------------------------------------
(* C9: after any sequence of create, update and delete operations on a      *)
(* table whose seed records have pairwise distinct sys_id values, all       *)
(* records of the table have pairwise distinct, non-empty sys_id values,    *)
(* given that the identifier generator never returns a value in use.        *)
C9_SysIdsDistinct ==
    \A t \in DOMAIN data :
        \A i, j \in 1..Len(data[t]) :
            /\ data[t][i].sys_id.kind = "string"
            /\ data[t][i].sys_id.prim # sEmpty
            /\ i # j => data[t][i].sys_id # data[t][j].sys_id

\* a record has been created with caller fields naming a sys_id that another
\* record of the table uses, in a table that holds an updated seed record
C9_Witness ==
    /\ Settled("createRecord")
    /\ "sys_id" \in DOMAIN resp.patch
    /\ resp.patch.sys_id \in idsOf(TableBefore)
    /\ Len(TableAfter) >= 2
    /\ \E i \in 1..Len(TableAfter) :
          /\ TableAfter[i].sys_updated_on # Undefined
          /\ TableAfter[i].sys_created_on = Undefined

----------------------------------------------------------------------------
(* C10: updateRecord(table, id, patch) never changes a record's             *)
(* identifier: for every patch, also one that carries another sys_id, the   *)
(* stored and the returned record have sys_id = id, and no record with the  *)
(* patch's sys_id comes into existence.                                     *)
C10_UpdateKeepsSysId ==
    Settled("updateRecord") =>
        LET index == findIndex(TableBefore, resp.sysId)
        IN  /\ resp.result.record.sys_id = resp.sysId
            /\ index # -1
            /\ TableAfter[index + 1] = resp.result.record
            /\ TableAfter[index + 1].sys_id = resp.sysId
            /\ [i \in 1..Len(TableAfter) |-> TableAfter[i].sys_id]
                  = [i \in 1..Len(TableBefore) |-> TableBefore[i].sys_id]
            /\ ("sys_id" \in DOMAIN resp.patch
                    /\ resp.patch.sys_id \notin idsOf(TableBefore))
                  => resp.patch.sys_id \notin idsOf(TableAfter)

\* an update whose patch carries a sys_id that no record of the table has
\* has settled
C10_Witness ==
    /\ Settled("updateRecord")
    /\ "sys_id" \in DOMAIN resp.patch
    /\ resp.patch.sys_id # resp.sysId
    /\ resp.patch.sys_id \notin idsOf(TableBefore)
    /\ resp.result.record.sys_id = resp.sysId

----------------------------------------------------------------------------
(* C11: after deleteRecord(table, id) completes for an existing record,     *)
(* getRecord(table, id) returns null, the table holds exactly one record    *)
(* less than before, and every other record is still present in its         *)
(* previous relative order.                                                 *)

\* the records of a table other than the one with the identifier, in order
Others(tableData, sysId) ==
    SelectSeqBy(tableData, [i \in 1..Len(tableData) |-> tableData[i].sys_id # sysId])

C11_DeleteThenGetIsNull ==
    Settled("deleteRecord") =>
        /\ getRecord(resp.tableName, resp.sysId) = [error |-> "", record |-> Null]
        /\ Len(TableAfter) = Len(TableBefore) - 1
        /\ TableAfter = Others(TableBefore, resp.sysId)

\* the first of two records has been deleted
C11_Witness ==
    /\ Settled("deleteRecord")
    /\ Len(TableBefore) >= 2
    /\ TableBefore[1].sys_id = resp.sysId
    /\ Len(TableAfter) >= 1

----------------------------------------------------------------------------
(* C12: updateRecord performs a shallow merge written back in place: every  *)
(* top-level field named in the patch takes the patch's value, every field  *)
(* not named keeps its prior value, the record stays at the same position,  *)
(* the record count is unchanged, and no other record is modified.          *)

\* the position (from 1) of the record a settled update worked on
UpdatedAt == findIndex(TableBefore, resp.sysId) + 1

\* written back in place, nothing else touched
InPlace ==
    /\ Len(TableAfter) = Len(TableBefore)
    /\ UpdatedAt \in 1..Len(TableAfter)
    /\ TableAfter[UpdatedAt] = resp.result.record
    /\ \A i \in 1..Len(TableAfter) : i # UpdatedAt => TableAfter[i] = TableBefore[i]

\* field f of the updated record is the patch's when named, else the prior one
Merged(f) ==
    resp.result.record[f] =
        IF f \in DOMAIN resp.patch THEN resp.patch[f] ELSE TableBefore[UpdatedAt][f]

\* as stated: every field is merged
C12_EveryFieldMerged ==
    Settled("updateRecord") => InPlace /\ \A f \in RecordFields : Merged(f)

\* as the code has it: every field but sys_id and sys_updated_on is merged,
\* sys_id stays the identifier asked for, sys_updated_on is the time of the
\* update
C12_MergeButIdAndUpdatedOn ==
    Settled("updateRecord") =>
        /\ InPlace
        /\ \A f \in RecordFields \ {"sys_id", "sys_updated_on"} : Merged(f)
        /\ resp.result.record.sys_id = resp.sysId
        /\ resp.result.record.sys_updated_on \in Times

\* the first of two records got a new name, its other fields were not named
C12_Witness ==
    /\ Settled("updateRecord")
    /\ Len(TableBefore) >= 2
    /\ UpdatedAt = 1
    /\ DOMAIN resp.patch = {"name"}
    /\ resp.patch.name # TableBefore[1].name
    /\ TableAfter[1].name = resp.patch.name
    /\ TableAfter[1].sys_updated_on # TableBefore[1].sys_updated_on

----------------------------------------------------------------------------
(* C13: createRecord appends exactly one new record at the end of the       *)
(* table's sequence, carrying the caller-supplied fields plus a freshly     *)
(* generated sys_id and creation/update timestamps, and returns that        *)
(* record; existing records keep their content and order, so an unsorted    *)
(* query returns the records in insertion order.                            *)

\* the fields createRecord sets itself
GeneratedFields == {"sys_id", "sys_created_on", "sys_updated_on"}

C13_CreateAppends ==
    Settled("createRecord") =>
        LET record == resp.result.record
        IN  /\ TableAfter = Append(TableBefore, record)
            /\ record.sys_id \in SysIds \ idsOf(TableBefore)
            /\ record.sys_created_on \in Times
            /\ record.sys_updated_on \in Times
            /\ \A f \in RecordFields \ GeneratedFields :
                  record[f] = IF f \in DOMAIN resp.patch
                              THEN resp.patch[f] ELSE Undefined
            /\ getRecords(resp.tableName, EmptyQuery).data = TableAfter

\* a named record has been added to a table that held a record
C13_Witness ==
    /\ Settled("createRecord")
    /\ Len(TableBefore) >= 1
    /\ "name" \in DOMAIN resp.patch
    /\ TableAfter[Len(TableAfter)].name = resp.patch.name
    /\ TableAfter[1] = TableBefore[1]
    /\ TableAfter[1] # TableAfter[Len(TableAfter)]

----------------------------------------------------------------------------
(* C14: getRecords and getRecord on a table name that is not registered     *)
(* fail with a "table not found" error, and getRecord on a registered table *)
(* returns null, not an error, when no record has the requested sys_id.     *)
C14_TableNotFoundOrNull ==
    /\ (resp.op \in {"getRecords", "getRecord"} /\ resp.tableName \notin DOMAIN data)
          => resp.result.error = TableNotFound
    /\ (resp.op = "getRecord" /\ resp.tableName \in DOMAIN data
            /\ resp.sysId \notin idsOf(data[resp.tableName]))
          => resp.result = [error |-> "", record |-> Null]

\* getRecord found no record with the identifier among the records of a
\* registered table
C14_Witness ==
    /\ resp.op = "getRecord"
    /\ resp.tableName \in DOMAIN data
    /\ Len(data[resp.tableName]) >= 1
    /\ resp.sysId \notin idsOf(data[resp.tableName])
    /\ resp.result.record = Null

----------------------------------------------------------------------------
(* C15: updateRecord and deleteRecord on a registered table fail with a     *)
(* "record not found" error whenever no record of the table has the given   *)
(* sys_id at the moment the operation acts on the store, also when the      *)
(* record was removed by a delete that completed before.                    *)
C15_RecordNotFound ==
    (/\ resp.op \in {"updateRecord", "deleteRecord"}
     /\ resp.tableName \in DOMAIN resp.before
     /\ resp.sysId \notin idsOf(TableBefore))
        => /\ resp.result.error = RecordNotFound
           /\ data = resp.before

\* a delete of the first seed record, which an earlier delete had removed,
\* has failed
C15_Witness ==
    /\ resp.op = "deleteRecord"
    /\ resp.result.error = RecordNotFound
    /\ resp.sysId = SysId(0)
    /\ resp.tableName \in DOMAIN resp.before
    /\ Len(TableBefore) >= 1
    /\ TableBefore[1].sys_id = SysId(1)
    /\ TableBefore[1].sys_created_on = Undefined

----------------------------------------------------------------------------
(* C16: getRelatedRecords(table, parentField, parentValue) returns,         *)
(* unpaginated and in store order, exactly the records of the table whose   *)
(* parentField raw value equals parentValue (the raw value of a {value,     *)
(* display_value} pair is its value), with total the number returned,       *)
(* page = 1 and pageSize = total.                                           *)

\* the records of a table whose field has the raw value, in store order
Related(tableData, parentField, parentValue) ==
    SelectSeqBy(tableData,
        [i \in 1..Len(tableData) |->
            /\ Prop(tableData[i], parentField) # Undefined
            /\ getValue(Prop(tableData[i], parentField)) = parentValue])

C16_RelatedByRawValue ==
    (resp.op = "getRelatedRecords" /\ resp.tableName \in DOMAIN data) =>
        LET records == Related(data[resp.tableName], resp.parentField, resp.parentSysId)
        IN  /\ resp.result.error = ""
            /\ resp.result.data = records
            /\ resp.result.total = Len(records)
            /\ resp.result.page = 1
            /\ resp.result.pageSize = Len(records)

----------------------------------------------------------------------------
(* C17: getRelatedRecords on an unregistered table never fails: it returns  *)
(* an empty result (data empty, total 0), unlike getRecords and getRecord,  *)
(* which fail with "table not found" for the same table name.               *)
C17_RelatedOfMissingTableIsEmpty ==
    (resp.op = "getRelatedRecords" /\ resp.tableName \notin DOMAIN data) =>
        /\ resp.result.error = ""
        /\ resp.result.data = << >>
        /\ resp.result.total = 0
        /\ getRecords(resp.tableName, EmptyQuery).error = TableNotFound
        /\ \A sysId \in SysIds :
              getRecord(resp.tableName, sysId).error = TableNotFound

\* related records were asked of the unregistered table while the
\* registered one holds a record with the value asked for
C17_Witness ==
    /\ resp.op = "getRelatedRecords"
    /\ resp.tableName = Unregistered
    /\ resp.tableName \notin DOMAIN data
    /\ resp.result.total = 0
    /\ Len(getRelatedRecords(incident, resp.parentField, resp.parentSysId).data) >= 1

----------------------------------------------------------------------------
(* C18: a persistence failure (network error or non-OK response) never      *)
(* makes createRecord, updateRecord or deleteRecord fail and never rolls    *)
(* back the in-memory change: the operation resolves successfully with the  *)
(* mutation applied to the in-memory store whatever the persistence         *)
(* outcome.                                                                 *)

Mutations == {"createRecord", "updateRecord", "deleteRecord"}

\* the request f settles in this step, with whatever outcome
Settles(f) == f \in fetches /\ fetches' = fetches \ {f}

C18_PersistenceNeverFailsTheCall ==
    [][\A f \in fetches :
          Settles(f) =>
              /\ resp' = f.call
              /\ resp'.op \in Mutations
              /\ resp'.result.error = ""
              /\ data' = data
              /\ data'[f.tableName] = f.body]_vars

\* a mutation has resolved although its request failed: the table file
\* still holds the records from before, the store holds the change
C18_Witness ==
    /\ resp.op \in Mutations
    /\ resp.result.error = ""
    /\ disk[resp.tableName] = TableBefore
    /\ TableAfter # TableBefore
    /\ disk[resp.tableName] # TableAfter

----------------------------------------------------------------------------
(* C19: after every create, update or delete that is applied to the         *)
(* in-memory store, exactly one persistence request is issued, for the      *)
(* affected table and for no other table, and its payload is the table's    *)
(* full record sequence as it stands at send time, which includes the       *)
(* effect of the mutation that triggered it.                                *)

\* the requests sent in this step
Sent == fetches' \ fetches

\* the payload shows what the call did
ShowsEffect(f) ==
    LET call == f.call
        before == call.before[call.tableName]
    IN  /\ call.op = "createRecord" =>
              f.body = Append(before, call.result.record)
        /\ call.op = "updateRecord" =>
              /\ Len(f.body) = Len(before)
              /\ f.body[findIndex(before, call.sysId) + 1] = call.result.record
        /\ call.op = "deleteRecord" =>
              /\ Len(f.body) = Len(before) - 1
              /\ call.sysId \notin idsOf(f.body)

C19_OneRequestPerMutation ==
    [][(data' # data \/ Sent # {}) =>
          \E f \in Sent :
              /\ Sent = {f}
              /\ f.call.op \in Mutations
              /\ f.tableName = f.call.tableName
              /\ f.body = data'[f.tableName]
              /\ ShowsEffect(f)
              /\ \A t \in DOMAIN data : t # f.tableName => data'[t] = data[t]]_vars

\* the request of a delete is in flight: it carries the table without the
\* record, the table file and the other table are as before
C19_Witness ==
    \E f \in fetches :
        /\ fetches = {f}
        /\ f.call.op = "deleteRecord"
        /\ f.tableName = incident
        /\ f.body = data[incident]
        /\ f.body # disk[incident]
        /\ Len(f.body) >= 1
        /\ data[problem] = ProblemSeed

----------------------------------------------------------------------------
(* C20: the persistence request is fire-and-forget: createRecord,           *)
(* updateRecord and deleteRecord return their result to the caller without  *)
(* waiting for the persistence request to settle, so a request that is slow *)
(* or never answered does not delay or block the completion of the          *)
(* mutating operation.                                                      *)
\* the call resolves in the step that sends its request
C20_ReturnsWithoutWaiting ==
    [][\A f \in Sent : resp' = f.call]_vars

----------------------------------------------------------------------------
(* C24: the query operations getRecords, getRecord and getRelatedRecords    *)
(* never change the Table Store: after any of them, with any parameters     *)
(* (sorting and filtering included), every table holds the same records in  *)
(* the same order as before, and only createRecord, updateRecord and        *)
(* deleteRecord (and initialization) change it.                             *)

Reads == {"getRecords", "getRecord", "getRelatedRecords"}

C24_QueriesLeaveTheStore ==
    [][/\ (resp' # resp /\ resp'.op \in Reads) => (data' = data /\ tables' = tables)
       /\ (data' # data) => \E f \in Sent : f.call.op \in Mutations]_vars

\* a sorted listing came back in another order than the table's, which is
\* as it was
C24_Witness ==
    /\ resp.op = "getRecords"
    /\ resp.tableName = incident
    /\ resp.query.sortField = "name"
    /\ Len(data[incident]) >= 2
    /\ resp.result.data[1] = data[incident][2]
    /\ resp.result.data[2] = data[incident][1]
    /\ data[incident][1].sys_id = SysId(0)

----------------------------------------------------------------------------
(* C28: when createRecord, updateRecord or deleteRecord fails with "table   *)
(* not found" or "record not found", the Table Store is left exactly as it  *)
(* was (same records, same order, in every table) and no persistence        *)
(* request is issued.                                                       *)
C28_FailureLeavesTheStore ==
    [][(/\ resp' # resp
        /\ resp'.op \in Mutations
        /\ resp'.result.error \in {TableNotFound, RecordNotFound})
          => (data' = data /\ Sent = {} /\ fetches' = fetches /\ disk' = disk)]_vars

\* an update of a record the table does not hold has failed; the table
\* holds its records, nothing is in flight
C28_Witness ==
    /\ resp.op = "updateRecord"
    /\ resp.result.error = RecordNotFound
    /\ resp.tableName = incident
    /\ Len(data[incident]) >= 1
    /\ data = resp.before
    /\ fetches = {}

----------------------------------------------------------------------------
(* The codec specification: getDisplayValue and getValue (fieldValue.ts)    *)
(* applied to scalars and to objects with and without the two members.      *)

\* the store is not in use
ApiUnused ==
    /\ tables = << >>
    /\ data = << >>
    /\ fetches = {}
    /\ disk = << >>
    /\ resp = NoResponse
    /\ NoCalls
    /\ NoWarnings

\* what a member of an object can be: its kind and its string form
Members ==
    {<<k, sEmpty>> : k \in {"absent", "undefined", "null"}}
    \cup {<<"string", s>> : s \in {sEmpty, sAlice, sBob}}
    \cup {<<"number", s9>>}

\* what the codec is handed: scalars, null, undefined, objects
CodecInputs ==
    {Undefined, Null, Str(sEmpty), Str(sAlice), Num(s9), Num(s10),
     Scalar("boolean", sTrue)}
    \cup {Object(v[1], v[2], d[1], d[2]) : v \in Members, d \in Members}

InitCodec == ApiUnused /\ UiUnused

GetDisplayValue ==
    \E field \in CodecInputs :
        /\ resp = NoResponse
        /\ resp' = [op |-> "getDisplayValue", field |-> field,
                    result |-> getDisplayValue(field)]
        /\ UNCHANGED <<tables, data, fetches, disk, calls, warnings, uiVars>>

GetValue ==
    \E field \in CodecInputs :
        /\ resp = NoResponse
        /\ resp' = [op |-> "getValue", field |-> field,
                    result |-> getValue(field)]
        /\ UNCHANGED <<tables, data, fetches, disk, calls, warnings, uiVars>>

NextCodec == GetDisplayValue \/ GetValue \/ Return

SpecCodec == InitCodec /\ [][NextCodec]_vars

\* a codec read has returned
CodecRead == resp.op \in {"getDisplayValue", "getValue"}

\* the member the read asked for: its kind and its string form
AskedKind ==
    IF resp.op = "getDisplayValue" THEN resp.field.displayKind ELSE resp.field.valueKind
AskedString ==
    IF resp.op = "getDisplayValue" THEN resp.field.display_value ELSE resp.field.value

\* a {value, display_value} pair
IsPair(field) ==
    field.kind = "object" /\ field.valueKind # "absent" /\ field.displayKind # "absent"

----------------------------------------------------------------------------
(* C25: getDisplayValue and getValue return, for a {value, display_value}   *)
(* pair, the display_value respectively value (the empty string when that   *)
(* member is null or undefined), for a bare string or number its string     *)
(* form, and for null or undefined input the empty string.                  *)
C25_CodecReadsMember ==
    CodecRead =>
        /\ IsPair(resp.field) =>
              resp.result = IF AskedKind \in {"null", "undefined"}
                            THEN sEmpty ELSE AskedString
        /\ resp.field.kind \in {"string", "number"} => resp.result = resp.field.prim
        /\ resp.field.kind \in {"null", "undefined"} => resp.result = sEmpty

\* the display value of a pair whose value is a string and whose
\* display_value is null has been read: it is the empty string
C25_Witness ==
    /\ resp.op = "getDisplayValue"
    /\ IsPair(resp.field)
    /\ resp.field.displayKind = "null"
    /\ resp.field.valueKind = "string"
    /\ resp.field.value = sAlice
    /\ resp.result = sEmpty

----------------------------------------------------------------------------
(* C26: the codec read functions are total and degrade to the empty string: *)
(* for every input that is neither a bare scalar nor an object carrying the *)
(* requested member (an object without display_value passed to              *)
(* getDisplayValue, or without value passed to getValue), they return the   *)
(* empty string and never throw.                                            *)
C26_CodecDegradesToEmpty ==
    (CodecRead /\ resp.field.kind = "object" /\ AskedKind = "absent")
        => resp.result = sEmpty

----------------------------------------------------------------------------
(* The filter builder (FilterBuilder.tsx:42-230) and the navigation         *)
(* provider (DataContext.tsx:71-112): the handlers of two components of the *)
(* user interface, each a step; a render and the effects it leaves are      *)
(* steps of their own.                                                      *)

MaxConditions == 3  \* longest list of conditions the builder is driven to

\* props.fields of the filter builder
fields == <<"name", "active">>

Conjunctions == {"AND", "OR"}

\* { ...c, ...updates }
spread(c, updates) ==
    [k \in DOMAIN c |-> IF k \in DOMAIN updates THEN updates[k] ELSE c[k]]

\* fields[0]?.name || ''
firstField == IF Len(fields) > 0 THEN fields[1] ELSE ""

\* addCondition (FilterBuilder.tsx:56-64)
addCondition(conjunction) ==
    LET newCondition ==
            FilterCondition(firstField, "is", sEmpty,
                            IF Len(conditions) > 0 THEN conjunction ELSE NoConjunction)
    IN Append(conditions, newCondition)

\* updateCondition (FilterBuilder.tsx:66-71); index counts from 1
updateCondition(index, updates) ==
    [i \in 1..Len(conditions) |->
        IF i = index THEN spread(conditions[i], updates) ELSE conditions[i]]

\* conditions.filter((_, i) => i !== index)
withoutIndex(index) ==
    SubSeq(conditions, 1, index - 1) \o SubSeq(conditions, index + 1, Len(conditions))

removeConditionKeepsConjunction(index) == withoutIndex(index)

\* removeCondition (FilterBuilder.tsx:73-80); index counts from 1
removeCondition(index) ==
    LET updated == withoutIndex(index)
    IN IF Len(updated) > 0
       THEN [updated EXCEPT ![1] = spread(updated[1], [conjunction |-> NoConjunction])]
       ELSE updated

\* clearAll (FilterBuilder.tsx:82-84)
clearAll == << >>

\* what the controls of row index hand to updateCondition
\* (FilterBuilder.tsx:158-209): the conjunction select is rendered for the
\* rows after the first only; the field select offers '' too
ControlUpdates(index) ==
    {[field |-> f] : f \in {"", "active"}}
    \cup (IF index > 1 THEN {[conjunction |-> c] : c \in Conjunctions} ELSE {})

\* String(isNavPinned)
String(b) == IF b THEN "true" ELSE "false"

\* the calls a handler of these components makes wait for no other
UiIdle == resp = NoResponse

\* the state of the navigation provider
Nav == [isNavOpen |-> isNavOpen, isNavPinned |-> isNavPinned,
        effectsRun |-> (~effects /\ renderedPinned = isNavPinned)]

\* setNavOpen (DataContext.tsx:90-94): the next isNavOpen
setNavOpen(open) ==
    IF renderedPinned /\ ~open THEN isNavOpen ELSE open

\* the mount of both components: no condition, the menu closed, the pin
\* read from localStorage, the effects of the first render to run
InitUi ==
    /\ ApiUnused
    /\ conditions = << >>
    /\ isNavOpen = FALSE
    /\ stored \in {"null", "true", "false"}
    /\ isNavPinned = (stored = "true")
    /\ renderedPinned = isNavPinned
    /\ effects = TRUE

UnchangedApi == UNCHANGED <<tables, data, fetches, disk, calls, warnings>>
UnchangedNav == UNCHANGED <<isNavOpen, isNavPinned, stored, renderedPinned, effects>>

AddCondition ==
    \E conjunction \in Conjunctions :
        /\ UiIdle
        /\ Len(conditions) < MaxConditions
        /\ conditions' = addCondition(conjunction)
        /\ resp' = [op |-> "addCondition", conjunction |-> conjunction,
                    before |-> conditions]
        /\ UnchangedApi /\ UnchangedNav

\* the field select of the placeholder row (FilterBuilder.tsx:122-135)
ChooseField ==
    \E f \in {fields[i] : i \in 1..Len(fields)} :
        /\ UiIdle
        /\ Len(conditions) = 0
        /\ conditions' = <<FilterCondition(f, "is", sEmpty, NoConjunction)>>
        /\ resp' = [op |-> "chooseField", field |-> f, before |-> conditions]
        /\ UnchangedApi /\ UnchangedNav

UpdateCondition ==
    \E index \in 1..Len(conditions) :
        \E updates \in ControlUpdates(index) :
            /\ UiIdle
            /\ conditions' = updateCondition(index, updates)
            /\ resp' = [op |-> "updateCondition", index |-> index,
                        updates |-> updates, before |-> conditions]
            /\ UnchangedApi /\ UnchangedNav

RemoveCondition ==
    \E index \in 1..Len(conditions) :
        /\ UiIdle
        /\ conditions' = removeCondition(index)
        /\ resp' = [op |-> "removeCondition", index |-> index, before |-> conditions]
        /\ UnchangedApi /\ UnchangedNav

ClearAll ==
    /\ UiIdle
    /\ conditions' = clearAll
    /\ resp' = [op |-> "clearAll", before |-> conditions]
    /\ UnchangedApi /\ UnchangedNav

SetNavOpen ==
    \E open \in BOOLEAN :
        /\ UiIdle
        /\ isNavOpen' = setNavOpen(open)
        /\ resp' = [op |-> "setNavOpen", open |-> open, before |-> Nav]
        /\ UnchangedApi
        /\ UNCHANGED <<conditions, isNavPinned, stored, renderedPinned, effects>>

\* toggleNavPin (DataContext.tsx:96-105)
ToggleNavPin ==
    LET newPinned == ~isNavPinned
    IN /\ UiIdle
       /\ isNavPinned' = newPinned
       /\ isNavOpen' = IF ~newPinned THEN FALSE ELSE isNavOpen
       /\ resp' = [op |-> "toggleNavPin", before |-> Nav]
       /\ UnchangedApi
       /\ UNCHANGED <<conditions, stored, renderedPinned, effects>>

\* the provider renders again after isNavPinned changed: setNavOpen closes
\* over the new value and the two effects, whose dependency it is, are left
\* to run
Render ==
    /\ UiIdle
    /\ renderedPinned # isNavPinned
    /\ renderedPinned' = isNavPinned
    /\ effects' = TRUE
    /\ UnchangedApi
    /\ UNCHANGED <<resp, conditions, isNavOpen, isNavPinned, stored>>

\* the two effects (DataContext.tsx:79-88) run with the isNavPinned of the
\* render that left them
RunEffects ==
    /\ UiIdle
    /\ effects
    /\ stored' = String(renderedPinned)
    /\ isNavOpen' = IF renderedPinned THEN TRUE ELSE isNavOpen
    /\ effects' = FALSE
    /\ UnchangedApi
    /\ UNCHANGED <<resp, conditions, isNavPinned, renderedPinned>>

NextUi ==
    \/ AddCondition
    \/ ChooseField
    \/ UpdateCondition
    \/ RemoveCondition
    \/ ClearAll
    \/ SetNavOpen
    \/ ToggleNavPin
    \/ Render
    \/ RunEffects
    \/ Return

SpecUi == InitUi /\ [][NextUi]_vars

\* no effect is left to run and no render is due
EffectsRun == Nav.effectsRun

----------------------------------------------------------------------------
(* C29: driven from an empty list by addCondition, removeCondition and      *)
(* clearAll, the first condition of the list never carries a conjunction    *)
(* and every later one carries AND or OR; removeCondition deletes exactly   *)
(* the condition at its index and keeps the others in their order; clearAll *)
(* empties the list.                                                        *)
C29_FirstHasNoConjunction ==
    /\ \A i \in 1..Len(conditions) :
          IF i = 1 THEN conditions[i].conjunction = NoConjunction
          ELSE conditions[i].conjunction \in Conjunctions
    /\ resp.op = "removeCondition" =>
          /\ Len(conditions) = Len(resp.before) - 1
          /\ \A i \in 1..Len(conditions) :
                LET old == resp.before[IF i < resp.index THEN i ELSE i + 1]
                IN /\ conditions[i].field = old.field
                   /\ conditions[i].operator = old.operator
                   /\ conditions[i].value = old.value
                   /\ i > 1 => conditions[i].conjunction = old.conjunction
    /\ resp.op = "clearAll" => conditions = << >>

\* the first of three conditions has been removed: the second, added with
\* OR, is the first now and carries no conjunction, the third follows it
C29_Witness ==
    /\ resp.op = "removeCondition"
    /\ resp.index = 1
    /\ Len(resp.before) = 3
    /\ resp.before[2].conjunction = "OR"
    /\ Len(conditions) = 2
    /\ conditions[1].conjunction = NoConjunction
    /\ conditions[2] = resp.before[3]

----------------------------------------------------------------------------
(* C30: after any sequence of setNavOpen and toggleNavPin calls, once the   *)
(* pending effects have run, a pinned menu is open; in such a state         *)
(* setNavOpen(false) changes nothing while the menu is pinned; and a        *)
(* toggleNavPin that unpins closes the menu.                                *)
C30_PinnedStaysOpen ==
    /\ (EffectsRun /\ isNavPinned) => isNavOpen
    /\ (resp.op = "setNavOpen" /\ ~resp.open
            /\ resp.before.effectsRun /\ resp.before.isNavPinned)
          => (isNavOpen /\ isNavPinned /\ EffectsRun)
    /\ (resp.op = "toggleNavPin" /\ resp.before.isNavPinned)
          => (~isNavPinned /\ ~isNavOpen)

----------------------------------------------------------------------------
(* Calls that do not wait for each other (mockApi.ts:117-304): every call   *)
(* first awaits its delay (mockApi.ts:55-57); when the timer fires, the     *)
(* rest of the function runs without interruption up to its next await,     *)
(* which a mutation has in persistToServer and a read has not.              *)

MaxCalls == 3   \* calls made in a session without awaiting them

\* a call as its caller made it
Request(op, tableName, sysId, patch) ==
    [op |-> op, tableName |-> tableName, sysId |-> sysId, patch |-> patch]

\* the calls the callers make, none waiting for another
ConcurrentCalls ==
    { Request("updateRecord", incident, SysId(0), [name |-> Str(sBob)]),
      Request("updateRecord", incident, SysId(0), [active |-> Str(sTrue)]),
      Request("updateRecord", incident, SysId(0),
              [name |-> Str(sB), active |-> Str(sTrue)]),
      Request("updateRecord", Unregistered, SysId(0), [name |-> Str(sBob)]),
      Request("deleteRecord", incident, SysId(0), << >>),
      Request("createRecord", incident, Undefined, [name |-> Str(sB), active |-> Str(sTrue)]),
      Request("getRecord", incident, SysId(0), << >>),
      Request("getRecords", incident, Undefined, << >>),
      Request("getRelatedRecords", incident, Undefined, << >>) }

ConcurrentSeed == <<Record(SysId(0), Str(sAlice), Undefined)>>

\* initializeApi (mockApi.ts:35-40); the table files hold the seed data
InitConcurrent ==
    /\ tables = [t \in {incident, problem} |->
                    [TableDefinition(None) EXCEPT !.name = t]]
    /\ data = [t \in {incident, problem} |->
                  IF t = incident THEN ConcurrentSeed ELSE ProblemSeed]
    /\ fetches = {}
    /\ disk = data
    /\ resp = NoResponse
    /\ NoCalls
    /\ NoWarnings
    /\ UiUnused

\* a call that awaits its delay, a call whose delay has elapsed
Awaiting(c) == [request |-> c, delayed |-> TRUE]
Past(c) == [request |-> c, delayed |-> FALSE]

\* a caller makes a call and does not await it: the call waits for its
\* timer.  A creation is made when an identifier is left for it.
StartCall ==
    \E c \in ConcurrentCalls :
        /\ Awaiting(c) \notin calls /\ Past(c) \notin calls
        /\ Cardinality(calls) < MaxCalls
        /\ c.op = "createRecord" => Len(data[c.tableName]) < MaxIds
        /\ calls' = calls \cup {Awaiting(c)}
        /\ UNCHANGED <<tables, data, fetches, disk, resp, warnings, uiVars>>

\* createRecord from its delay to its await of persistToServer
\* (mockApi.ts:200-214)
createRecordAfterDelay(c) ==
    IF c.tableName \notin DOMAIN data
    THEN Rejected(Call(c.op, c.tableName, c.sysId, c.patch, Undefined), TableNotFound)
    ELSE \E id \in SysIds \ idsOf(data[c.tableName]), created, updated \in Times :
            LET record == newRecord(c.patch, id, created, updated)
            IN  Applied(Call(c.op, c.tableName, c.sysId, c.patch, record),
                        [data EXCEPT ![c.tableName] = Append(@, record)])

\* updateRecord from its delay to its await of persistToServer
\* (mockApi.ts:225-244)
updateRecordAfterDelay(c) ==
    IF c.tableName \notin DOMAIN data
    THEN Rejected(Call(c.op, c.tableName, c.sysId, c.patch, Undefined), TableNotFound)
    ELSE LET index == findIndex(data[c.tableName], c.sysId)
         IN  IF index = -1
             THEN Rejected(Call(c.op, c.tableName, c.sysId, c.patch, Undefined),
                           RecordNotFound)
             ELSE \E updated \in Times :
                     LET record == updatedRecord(data[c.tableName][index + 1],
                                                 c.patch, c.sysId, updated)
                     IN  Applied(Call(c.op, c.tableName, c.sysId, c.patch, record),
                                 [data EXCEPT ![c.tableName][index + 1] = record])

\* deleteRecord from its delay to its await of persistToServer
\* (mockApi.ts:254-265)
deleteRecordAfterDelay(c) ==
    IF c.tableName \notin DOMAIN data
    THEN Rejected(Call(c.op, c.tableName, c.sysId, c.patch, Undefined), TableNotFound)
    ELSE LET index == findIndex(data[c.tableName], c.sysId)
         IN  IF index = -1
             THEN Rejected(Call(c.op, c.tableName, c.sysId, c.patch, Undefined),
                           RecordNotFound)
             ELSE Applied(Call(c.op, c.tableName, c.sysId, c.patch, Undefined),
                          [data EXCEPT ![c.tableName] = splice(@, index)])

\* a read of the table files instead of the store
readResultOfDisk(c) ==
    [error |-> "",
     record |-> IF findIndex(disk[incident], c.sysId) = -1 THEN Null
                ELSE disk[incident][findIndex(disk[incident], c.sysId) + 1],
     data |-> disk[incident], total |-> Len(disk[incident]),
     page |-> 1, pageSize |-> 20]

\* what a read returns of the store as it stands
readResult(c) ==
    IF c.op = "getRecord" THEN getRecord(c.tableName, c.sysId)
    ELSE IF c.op = "getRecords" THEN getRecords(c.tableName, EmptyQuery)
    ELSE getRelatedRecords(c.tableName, "name", sAlice)

\* a read from its delay to its return (mockApi.ts:122-177, 185-192,
\* 288-303): nothing is awaited, the call settles at once
readAfterDelay(c) ==
    /\ resp' = [op |-> c.op, tableName |-> c.tableName, sysId |-> c.sysId,
                patch |-> c.patch, before |-> data, result |-> readResult(c)]
    /\ UNCHANGED <<tables, data, fetches, disk, warnings, uiVars>>

\* the timer of call c fires (mockApi.ts:55-57) and the call runs on
DelayElapses(c) ==
    /\ Awaiting(c) \in calls
    /\ calls' = (calls \ {Awaiting(c)}) \cup {Past(c)}
    /\ IF c.op = "createRecord" THEN createRecordAfterDelay(c)
       ELSE IF c.op = "updateRecord" THEN updateRecordAfterDelay(c)
       ELSE IF c.op = "deleteRecord" THEN deleteRecordAfterDelay(c)
       ELSE readAfterDelay(c)

TimerFires == \E c \in ConcurrentCalls : DelayElapses(c)

NextConcurrent ==
    \/ StartCall
    \/ TimerFires
    \/ PersistOk
    \/ PersistFails

\* timers fire; nothing makes the server answer a request
SpecConcurrent ==
    /\ InitConcurrent
    /\ [][NextConcurrent]_vars
    /\ \A c \in ConcurrentCalls : WF_vars(DelayElapses(c))

\* the call as its caller made it
RequestOf(call) == Request(call.op, call.tableName, call.sysId, call.patch)

\* the delay of call c elapses in this step
Ran(c) == Awaiting(c) \in calls /\ Past(c) \in calls'

\* call c has settled: its delay has elapsed and it awaits no request
SettledCall(c) ==
    /\ Past(c) \in calls
    /\ \A f \in fetches : RequestOf(f.call) # c

\* the two updates of one record that name different fields
FirstUpdate == Request("updateRecord", incident, SysId(0), [name |-> Str(sBob)])
SecondUpdate == Request("updateRecord", incident, SysId(0), [active |-> Str(sTrue)])

\* the other calls of the model that change that record
OtherWrites ==
    {c \in ConcurrentCalls \ {FirstUpdate, SecondUpdate} :
        c.op \in {"updateRecord", "deleteRecord"} /\ c.tableName = incident}

\* the record with identifier sysId in the table, undefined when there is none
recordOf(tableData, sysId) ==
    LET index == findIndex(tableData, sysId)
    IN  IF index = -1 THEN Undefined ELSE tableData[index + 1]

\* the record after the updates of `order` were merged into it one by one
RECURSIVE afterUpdates(_, _)
afterUpdates(record, order) ==
    IF order = << >> THEN record
    ELSE afterUpdates(updatedRecord(record, Head(order).patch, Head(order).sysId,
                                    Str(sNow)),
                      Tail(order))

----------------------------------------------------------------------------
(* C21 as stated: two updateRecord calls on the same record issued without  *)
(* awaiting each other can interleave so that the second write fully        *)
(* clobbers the first: of the orders in which the two can run, one ends     *)
(* with a field changed only by the first update's patch having lost that   *)
(* change.                                                                  *)
C21_SecondClobbersFirst ==
    (Awaiting(FirstUpdate) \in calls /\ Awaiting(SecondUpdate) \in calls
        /\ findIndex(data[incident], SysId(0)) # -1)
      => \E order \in {<<FirstUpdate, SecondUpdate>>, <<SecondUpdate, FirstUpdate>>} :
            \E field \in DOMAIN FirstUpdate.patch \ DOMAIN SecondUpdate.patch :
                afterUpdates(recordOf(data[incident], SysId(0)), order)[field]
                    # FirstUpdate.patch[field]

(* C21: two updateRecord calls on the same record issued without awaiting   *)
(* each other run one after the other, each merging its patch into the      *)
(* record as the other left it: in whichever order they ran, when no other  *)
(* call wrote the record, a field changed only by the first update's patch  *)
(* keeps that change, and so does a field changed only by the second's.     *)
C21_BothPatchesSurvive ==
    (Past(FirstUpdate) \in calls /\ Past(SecondUpdate) \in calls
        /\ \A c \in OtherWrites : Awaiting(c) \notin calls /\ Past(c) \notin calls)
      => /\ findIndex(data[incident], SysId(0)) # -1
         /\ \A field \in DOMAIN FirstUpdate.patch \ DOMAIN SecondUpdate.patch :
               recordOf(data[incident], SysId(0))[field] = FirstUpdate.patch[field]
         /\ \A field \in DOMAIN SecondUpdate.patch \ DOMAIN FirstUpdate.patch :
               recordOf(data[incident], SysId(0))[field] = SecondUpdate.patch[field]

\* both updates have run and the requests of both are in flight: neither
\* call waited for the other; the record carries the name of the first and
\* the active of the second
C21_Witness ==
    /\ Past(FirstUpdate) \in calls
    /\ Past(SecondUpdate) \in calls
    /\ {RequestOf(f.call) : f \in fetches} = {FirstUpdate, SecondUpdate}
    /\ recordOf(data[incident], SysId(0)).name = Str(sBob)
    /\ recordOf(data[incident], SysId(0)).active = Str(sTrue)

----------------------------------------------------------------------------
(* C22: a read (getRecord, getRecords, getRelatedRecords) returns the table *)
(* as it stands when the read runs, so a read started after a create,       *)
(* update or delete has completed observes that write's full effect; and    *)
(* the table changes only in the one step of a mutation, which applies it   *)
(* whole: every field of an update's patch, the whole new record of a       *)
(* creation at the end, the removal of exactly the deleted record.  No      *)
(* read observes a partially applied mutation.                              *)

\* table `after` is table `before` with the mutation of call c applied whole
Whole(c, before, after) ==
    LET index == findIndex(before, c.sysId)
    IN  /\ c.op = "updateRecord" =>
              /\ Len(after) = Len(before)
              /\ \A i \in 1..Len(before) :
                    IF i = index + 1
                    THEN \A field \in RecordFields \ {"sys_id", "sys_updated_on"} :
                            after[i][field] = IF field \in DOMAIN c.patch
                                              THEN c.patch[field] ELSE before[i][field]
                    ELSE after[i] = before[i]
        /\ c.op = "createRecord" =>
              /\ Len(after) = Len(before) + 1
              /\ SubSeq(after, 1, Len(before)) = before
              /\ \A field \in DOMAIN c.patch : after[Len(after)][field] = c.patch[field]
        /\ c.op = "deleteRecord" =>
              /\ Len(after) = Len(before) - 1
              /\ \A i \in 1..Len(after) :
                    after[i] = before[IF i < index + 1 THEN i ELSE i + 1]

\* the result of read c tells the table as it is
TellsTheTable(c, result, tableData) ==
    /\ result.error = ""
    /\ c.op = "getRecord" => result.record = recordOf(tableData, c.sysId)
                                 \/ (result.record = Null
                                        /\ findIndex(tableData, c.sysId) = -1)
    /\ c.op = "getRecords" => result.data = tableData /\ result.total = Len(tableData)
    /\ c.op = "getRelatedRecords" =>
          /\ \A i \in 1..Len(result.data) :
                \E j \in 1..Len(tableData) : result.data[i] = tableData[j]
          /\ \A j \in 1..Len(tableData) :
                tableData[j].name = Str(sAlice) =>
                    \E i \in 1..Len(result.data) : result.data[i] = tableData[j]

C22_ReadsSeeWholeWrites ==
    [][/\ \A c \in ConcurrentCalls :
             Ran(c) =>
                /\ c.op \in Reads =>
                      /\ data' = data
                      /\ resp'.op = c.op
                      /\ TellsTheTable(c, resp'.result, data'[c.tableName])
                /\ (c.op \in Mutations /\ data' # data) =>
                      Whole(c, data[c.tableName], data'[c.tableName])
       /\ data' # data =>
             \E c \in ConcurrentCalls : Ran(c) /\ c.op \in Mutations]_vars

\* the update of name and active has completed, its request answered; the
\* read of the record that ran last returned the record with both
C22_Witness ==
    /\ SettledCall(Request("updateRecord", incident, SysId(0),
                           [name |-> Str(sB), active |-> Str(sTrue)]))
    /\ resp.op = "getRecord"
    /\ resp.result.record = recordOf(data[incident], SysId(0))
    /\ resp.result.record.name = Str(sB)
    /\ resp.result.record.active = Str(sTrue)
    /\ resp.before = data

----------------------------------------------------------------------------
(* C23: a failed persistence write is never retried: the settling of a      *)
(* request sends no other, requests go out in the step of a mutation only;  *)
(* and once the persistence write of a mutation made after a failure        *)
(* succeeds, with no other call under way, the table file equals the        *)
(* record sequence of the table in memory.                                  *)
C23_SuccessfulWriteSyncs ==
    [][/\ Sent # {} => \E c \in ConcurrentCalls : Ran(c) /\ c.op \in Mutations
       /\ \A f \in fetches :
             Settles(f) =>
                /\ Sent = {}
                /\ (warnings' = warnings /\ f.call.warned > 0
                        /\ fetches' = {} /\ \A c \in ConcurrentCalls : Awaiting(c) \notin calls')
                      => disk'[f.tableName] = data'[f.tableName]]_vars

----------------------------------------------------------------------------
====
